---------------------------- MODULE Spec2Model ----------------------------
(***************************************************************************)
(* checksb: a differential-testing harness that drives two SQL command     *)
(* line clients (bendsql, snowsql) through setup.sql, action.sql and       *)
(* check.sql and compares their outputs statement by statement.            *)
(*                                                                         *)
(* Text is modelled as a sequence of one-character strings, so that        *)
(* str.split, str.strip, str.lower, the `in` substring test and re.search  *)
(* are computed character by character as Python computes them.            *)
(***************************************************************************)
EXTENDS Integers, Sequences, FiniteSets, TLC

(* ------------------------------- bounds -------------------------------- *)

\* Only fixtures with at most this many ';'-separated fragments are run.
MaxFragments == 3

(* --------------------------- Python text ------------------------------- *)

\* Python's None.
None == "None"

\* Characters str.strip() removes and the regex class \s matches.
Whitespace == {" ", "\n", "\t"}

UpperCase == <<"A","B","C","D","E","F","G","H","I","J","K","L","M",
               "N","O","P","Q","R","S","T","U","V","W","X","Y","Z">>

LowerCase == <<"a","b","c","d","e","f","g","h","i","j","k","l","m",
               "n","o","p","q","r","s","t","u","v","w","x","y","z">>

Digits == {"0","1","2","3","4","5","6","7","8","9"}

\* The regex class [\w-]: letters, digits, underscore, hyphen.
TokenChars ==
    {UpperCase[k] : k \in 1..26} \cup {LowerCase[k] : k \in 1..26}
        \cup Digits \cup {"_", "-"}

\* str.lower() on one character.
LowerChar(c) ==
    IF \E k \in 1..26 : UpperCase[k] = c
    THEN LowerCase[CHOOSE k \in 1..26 : UpperCase[k] = c]
    ELSE c

\* str.lower()
Lower(s) == [k \in 1..Len(s) |-> LowerChar(s[k])]

\* The substring test `p in s`.
Contains(s, p) ==
    \E k \in 0..(Len(s) - Len(p)) : SubSeq(s, k + 1, k + Len(p)) = p

\* str.strip(): s without its leading and trailing whitespace.
Strip(s) ==
    LET keep == {k \in 1..Len(s) : s[k] \notin Whitespace}
    IN  IF keep = {} THEN << >>
        ELSE SubSeq(s, CHOOSE k \in keep : \A j \in keep : k <= j,
                       CHOOSE k \in keep : \A j \in keep : k >= j)

\* str.split(sep) for a one-character separator: n separators give n + 1
\* fragments, the empty ones included.
RECURSIVE Split(_, _)
Split(s, sep) ==
    LET at == {k \in 1..Len(s) : s[k] = sep}
    IN  IF at = {} THEN <<s>>
        ELSE LET k == CHOOSE k \in at : \A j \in at : k <= j
             IN  <<SubSeq(s, 1, k - 1)>> \o Split(SubSeq(s, k + 1, Len(s)), sep)

\* The end (exclusive) of the longest run of characters of `class` from k.
RECURSIVE RunEnd(_, _, _)
RunEnd(s, k, class) ==
    IF k <= Len(s) /\ s[k] \in class THEN RunEnd(s, k + 1, class) ELSE k

\* Does r"--\s*([\w-]+):" match s starting at k?  \s* and [\w-]+ are greedy
\* over disjoint classes and ':' is in neither, so backtracking cannot find
\* a match the longest runs miss.
MatchesAt(s, k) ==
    /\ k + 1 <= Len(s) /\ s[k] = "-" /\ s[k + 1] = "-"
    /\ LET t == RunEnd(s, k + 2, Whitespace)
           e == RunEnd(s, t, TokenChars)
       IN  e > t /\ e <= Len(s) /\ s[e] = ":"

\* group(1) of the match at k.
GroupAt(s, k) ==
    LET t == RunEnd(s, k + 2, Whitespace)
    IN  SubSeq(s, t, RunEnd(s, t, TokenChars) - 1)

\* An extraction that reads the identifier only off a comment that opens
\* the statement.
QueryIdentifierLeading(query) ==
    IF MatchesAt(Strip(query), 1) THEN GroupAt(Strip(query), 1)
    ELSE <<"U","n","k","n","o","w","n"," ","Q","u","e","r","y">>

Unknown_Query == <<"U","n","k","n","o","w","n"," ","Q","u","e","r","y">>

\* match = re.search(r"--\s*([\w-]+):", query);
\* match.group(1).strip() if match else "Unknown Query"
QueryIdentifier(query) ==
    LET hits == {k \in 1..Len(query) : MatchesAt(query, k)}
    IN  IF hits = {} THEN Unknown_Query
        ELSE Strip(GroupAt(query, CHOOSE k \in hits : \A j \in hits : k <= j))

(* ------------------------ literals of the code ------------------------- *)

DROP_DATABASE == <<"D","R","O","P"," ","D","A","T","A","B","A","S","E">>

Unknown_database == <<"U","n","k","n","o","w","n"," ","d","a","t","a","b","a","s","e">>

error_word == <<"e","r","r","o","r">>

unknown_function == <<"u","n","k","n","o","w","n"," ","f","u","n","c","t","i","o","n">>

Semicolon == ";"

\* A DROP without the IF EXISTS clause.
DropQueryPlain(database_name) ==
    <<"D","R","O","P"," ","D","A","T","A","B","A","S","E"," ">> \o database_name \o <<";">>

\* f"DROP DATABASE IF EXISTS {database_name};"
DropQuery(database_name) ==
    <<"D","R","O","P"," ","D","A","T","A","B","A","S","E"," ","I","F"," ","E","X","I","S","T","S"," ">> \o database_name \o <<";">>

\* f"CREATE DATABASE {database_name};"
CreateQuery(database_name) ==
    <<"C","R","E","A","T","E"," ","D","A","T","A","B","A","S","E"," ">> \o database_name \o <<";">>

\* The bootstrap database bendsql provisioning connects to.
DefaultDatabase == <<"d","e","f","a","u","l","t">>

(* ----------------------------- fixtures -------------------------------- *)

Paths == {"bend/setup.sql", "snow/setup.sql", "action.sql", "check.sql"}

\* The sql/<case> directories the runs are given.
Catalog ==
    { [p \in Paths |->
         CASE p = "bend/setup.sql" -> <<"C","R","E","A","T","E"," ","t",";","\n","I","N","S","E","R","T"," ","t",";","\n">>
           [] p = "snow/setup.sql" -> <<"c","r","e","a","t","e"," ","t",";","\n">>
           [] p = "action.sql"     -> <<"U","P","D","A","T","E"," ","t",";">>
           [] p = "check.sql"      -> <<"-","-"," ","T","1",":"," ","a","\n","S","E","L","E","C","T"," ","1",";","\n","S","E","L","E","C","T"," ","2",";","\n">>],
      [p \in Paths |->
         CASE p = "bend/setup.sql" -> << >>
           [] p = "snow/setup.sql" -> <<" ","\n">>
           [] p = "action.sql"     -> <<"D","R","O","P"," ","D","A","T","A","B","A","S","E"," ","x",";","\n","U","P","D","A","T","E"," ","t">>
           [] p = "check.sql"      -> <<";"," ","S","E","L","E","C","T"," ","1"," ",";">>],
      [p \in Paths |->
         CASE p = "bend/setup.sql" -> <<"C","R","E","A","T","E"," ","t">>
           [] p = "snow/setup.sql" -> <<"C","R","E","A","T","E"," ","t">>
           [] p = "action.sql"     -> <<"d","r","o","p"," ","d","a","t","a","b","a","s","e"," ","x",";","U","P","D","A","T","E"," ","t">>
           [] p = "check.sql"      -> <<"S","E","L","E","C","T"," ","1","\n","-","-"," ","T","1",":"," ","x",";","\n","\n","-","-"," ","T","1",":"," ","y","\n","S","E","L","E","C","T"," ","3">>],
      [p \in Paths |->
         CASE p = "bend/setup.sql" -> <<"C","R","E","A","T","E"," ","t",";">>
           [] p = "snow/setup.sql" -> <<"C","R","E","A","T","E"," ","t",";">>
           [] p = "action.sql"     -> <<";">>
           [] p = "check.sql"      -> <<"-","-"," ","A","-","1",":"," ","a","\n","S","E","L","E","C","T"," ","1",";",";","\n","-","-"," ","B","_","2"," ",":","\n","S","E","L","E","C","T"," ","3",";">>] }

Cases ==
    {c \in Catalog : \A p \in Paths : Len(Split(c[p], Semicolon)) <= MaxFragments}

\* What a client process can answer: stdout, stderr and exit status.
Outcomes ==
    { [stdout |-> <<"1">>,     stderr |-> << >>, returncode |-> 0],
      [stdout |-> <<"2">>,     stderr |-> << >>, returncode |-> 0],
      [stdout |-> <<"1","\n">>,   stderr |-> << >>, returncode |-> 0],
      [stdout |-> <<"1">>,     stderr |-> << >>, returncode |-> 1],
      [stdout |-> <<"1">>,     stderr |-> <<"u","n","k","n","o","w","n"," ","f","u","n","c","t","i","o","n">>, returncode |-> 0],
      [stdout |-> << >>,      stderr |-> <<"E","r","r","o","r",":"," ","U","n","k","n","o","w","n"," ","d","a","t","a","b","a","s","e">>, returncode |-> 1],
      [stdout |-> <<"e","r","r","o","r",":"," ","u","n","k","n","o","w","n"," ","d","a","t","a","b","a","s","e">>, stderr |-> << >>, returncode |-> 0],
      [stdout |-> <<"E","R","R","O","R">>, stderr |-> << >>, returncode |-> 0],
      [stdout |-> <<"E","R","R","O","R">>, stderr |-> << >>, returncode |-> 1],
      [stdout |-> <<"U","n","k","n","o","w","n"," ","F","u","n","c","t","i","o","n">>, stderr |-> << >>, returncode |-> 0],
      [stdout |-> <<"U","n","k","n","o","w","n"," ">>, stderr |-> <<"d","a","t","a","b","a","s","e">>, returncode |-> 0] }

(* ------------------------------- state --------------------------------- *)

VARIABLES
    args,              \* the parsed command line
    files,             \* path -> text of the case's fixtures
    pc,                \* the call site the run is at, or how it ended
    blocked,           \* the program is inside subprocess.run
    running,           \* the client processes started and not yet ended
    calls,             \* every subprocess.run so far: command and call site
    failed_launches,   \* the calls whose process could not be started
    last,              \* per client: execute_sql's latest `result` and what it did with it
    bend_result,       \* run_check_sql's local
    passed_tests,
    failed_tests,
    now,               \* time.time()
    start_time,
    total_start_time,
    summaries,         \* the summaries run_check_sql has reported
    engine             \* bendsql's target database, when the run tracks it

vars == <<args, files, pc, blocked, running, calls, failed_launches, last,
          bend_result, passed_tests, failed_tests, now, start_time,
          total_start_time, summaries, engine>>

Site(at, tool, i) == [at |-> at, tool |-> tool, i |-> i]

\* The sites where execute_sql is called.
CallSites == {"drop", "create", "setup", "action", "check"}

\* How a run ends: after the summary, by sys.exit(1), by an uncaught exception.
Ended == {"done", "exit", "raised"}

(* ---------------------------- execute_sql ------------------------------ *)

\* The command line execute_sql builds.
Command(query, sql_tool, database, warehouse) ==
    [tool      |-> sql_tool,
     query     |-> query,
     dbname    |-> database,
     warehouse |-> IF sql_tool = "snowsql" /\ warehouse # None
                   THEN warehouse ELSE None]

Returns(text) == [kind |-> "return", value |-> text, code |-> 0]

SysExit(code) == [kind |-> "exit", value |-> << >>, code |-> code]

\* A reading for which every error text is fatal, a DROP's too.
ClassifyIntolerant(query, output, error) ==
        IF \/ Contains(Lower(output), error_word)
           \/ Contains(Lower(error), error_word)
           \/ Contains(Lower(output), unknown_function)
        THEN SysExit(1)
        ELSE Returns(output)

\* A reading that never ends the run.
ClassifyNoExit(query, output, error) == Returns(output)

\* A reading that tolerates a failed DROP DATABASE only when the text says
\* "Unknown database" in exactly that spelling.
ClassifyDropStrict(query, output, error) ==
        IF Contains(query, DROP_DATABASE)
             /\ Contains(output \o error, Unknown_database)
        THEN Returns(output)
        ELSE IF \/ Contains(Lower(output), error_word)
                \/ Contains(Lower(error), error_word)
                \/ Contains(Lower(output), unknown_function)
             THEN SysExit(1)
             ELSE Returns(output)

\* A reading that looks for "error" without lowering the text first.
ClassifyCaseSensitive(query, output, error) ==
        IF Contains(query, DROP_DATABASE)
             /\ Contains(output \o error, Unknown_database)
        THEN Returns(output)
        ELSE IF \/ Contains(output, error_word)
                \/ Contains(error, error_word)
                \/ Contains(Lower(output), unknown_function)
             THEN IF Contains(query, DROP_DATABASE)
                  THEN Returns(output)
                  ELSE SysExit(1)
             ELSE Returns(output)

\* execute_sql's reading of the captured output and error text.
Classify(query, output, error) ==
        IF Contains(query, DROP_DATABASE)
             /\ Contains(output \o error, Unknown_database)
        THEN Returns(output)
        ELSE IF \/ Contains(Lower(output), error_word)
                \/ Contains(Lower(error), error_word)
                \/ Contains(Lower(output), unknown_function)
             THEN IF Contains(query, DROP_DATABASE)
                  THEN Returns(output)
                  ELSE SysExit(1)
             ELSE Returns(output)

\* subprocess.run with check=True: a non-zero exit status ends the run.
execute_sql_checked(query, result) ==
    IF result.returncode # 0 THEN SysExit(1)
    ELSE Classify(query, result.stdout, result.stderr)

\* What execute_sql does once the process has ended with `result`
\* (check=False: the exit status is not looked at).
execute_sql(query, result) == Classify(query, result.stdout, result.stderr)

\* A client started without waiting for it (Popen).
subprocess_run_detached == FALSE

\* subprocess.run waits for the process it starts.
subprocess_run_blocks == TRUE

(* ---------------------------- control flow ----------------------------- *)

\* A main() that does not look at --run-check-only.
PipelinesNoCheckOnly ==
    IF args.runbend THEN <<"bendsql">>
    ELSE IF args.runsnow THEN <<"snowsql">>
    ELSE <<"bendsql", "snowsql">>

\* A main() that runs both pipelines whenever it runs any.
PipelinesAlwaysBoth ==
    IF args.run_check_only THEN << >> ELSE <<"bendsql", "snowsql">>

\* A main() that tests --runsnow before --runbend.
PipelinesSnowFirst ==
    IF args.run_check_only THEN << >>
    ELSE IF args.runsnow THEN <<"snowsql">>
    ELSE IF args.runbend THEN <<"bendsql">>
    ELSE <<"bendsql", "snowsql">>

\* The engines main() provisions and loads, in order.
Pipelines ==
    IF args.run_check_only THEN << >>
    ELSE IF args.runbend THEN <<"bendsql">>
    ELSE IF args.runsnow THEN <<"snowsql">>
    ELSE <<"bendsql", "snowsql">>

\* setup_and_execute's script paths.
ScriptPath(at, tool) ==
    IF at = "setup"
    THEN (IF tool = "bendsql" THEN "bend/setup.sql" ELSE "snow/setup.sql")
    ELSE IF at = "action" THEN "action.sql" ELSE "check.sql"

\* queries = sql_script.split(";")
Queries(at, tool) == Split(files[ScriptPath(at, tool)], Semicolon)

\* A loop without the `if query.strip():` test.
NextQueryUnfiltered(queries, i) == i

\* `for query in queries: if query.strip():` from fragment i on: the index
\* of the next fragment that is executed, Len(queries) + 1 when none is.
NextQuery(queries, i) ==
    LET todo == {k \in i..Len(queries) : Strip(queries[k]) # << >>}
    IN  IF todo = {} THEN Len(queries) + 1
        ELSE CHOOSE k \in todo : \A j \in todo : k <= j

\* run_check_sql's loop from fragment i on; after it the summary is
\* reported and main() returns.
CheckFrom(i) ==
    LET k == NextQuery(Queries("check", None), i)
    IN  IF k <= Len(Queries("check", None))
        THEN Site("check", "bendsql", k)
        ELSE Site("done", None, 0)

\* A main() that compares as soon as the first pipeline has returned.
AfterPipelineCompare(tool) == CheckFrom(1)

\* main() after setup_and_execute(tool) has returned.
AfterPipeline(tool) ==
    LET n == CHOOSE k \in 1..Len(Pipelines) : Pipelines[k] = tool
    IN  IF n < Len(Pipelines)
        THEN Site("drop", Pipelines[n + 1], 0)
        ELSE CheckFrom(1)

\* execute_sql_scripts on action.sql from fragment i on.
ActionFrom(tool, i) ==
    LET k == NextQuery(Queries("action", tool), i)
    IN  IF k <= Len(Queries("action", tool))
        THEN Site("action", tool, k)
        ELSE AfterPipeline(tool)

\* execute_sql_scripts on setup.sql from fragment i on.
SetupFrom(tool, i) ==
    LET k == NextQuery(Queries("setup", tool), i)
    IN  IF k <= Len(Queries("setup", tool))
        THEN Site("setup", tool, k)
        ELSE ActionFrom(tool, 1)

\* main() up to its first call of execute_sql.
FirstSite ==
    IF Pipelines = << >> THEN CheckFrom(1)
    ELSE Site("drop", Pipelines[1], 0)

\* A caller that trims the fragment it hands over.
QueryArgumentTrimmed(query) == Strip(query)

\* The query a script or the comparator hands to execute_sql.
QueryArgument(query) == query

\* The command of the call at site s.
CommandAt(s) ==
    CASE s.at = "drop" ->
           Command(DropQuery(args.database), s.tool,
                   IF s.tool = "bendsql" THEN DefaultDatabase ELSE args.database,
                   None)
      [] s.at = "create" ->
           Command(CreateQuery(args.database), s.tool,
                   IF s.tool = "bendsql" THEN DefaultDatabase ELSE args.database,
                   None)
      [] s.at \in {"setup", "action"} ->
           Command(QueryArgument(Queries(s.at, s.tool)[s.i]), s.tool, args.database,
                   IF s.tool = "snowsql" THEN args.warehouse ELSE None)
      [] s.at = "check" ->
           Command(QueryArgument(Queries("check", None)[s.i]), s.tool, args.database,
                   IF s.tool = "snowsql" THEN args.warehouse ELSE None)

\* A comparison that trims the two texts first.
DifferTrimmed(bend, snow) == Strip(bend) # Strip(snow)

\* bend_result != snow_result
Differ(bend, snow) == bend # snow

\* A record with the two engines' texts in the wrong order.
FailedRecordSwapped(query_identifier, bend, snow) == <<query_identifier, snow, bend>>

\* failed_tests.append((query_identifier, bend_result, snow_result))
FailedRecord(query_identifier, bend, snow) == <<query_identifier, bend, snow>>

\* passed_tests.append((query_identifier, elapsed_time))
PassedRecord(query_identifier, elapsed_time) == <<query_identifier, elapsed_time>>

\* A loop that gives up at the first mismatch.
AbortOnMismatch(i, differ) ==
    IF differ THEN Site("exit", None, 1) ELSE CheckFrom(i + 1)

\* The for loop of run_check_sql after the comparison of fragment i.
AfterCompare(i, differ) == CheckFrom(i + 1)

\* A list that keeps one record per identifier, a later record taking the
\* place of an earlier one with the same identifier.
RecordedMerged(tests, record) ==
    IF \E n \in 1..Len(tests) : tests[n][1] = record[1]
    THEN [n \in 1..Len(tests) |->
             IF tests[n][1] = record[1] THEN record ELSE tests[n]]
    ELSE Append(tests, record)

\* passed_tests.append / failed_tests.append: the record goes to the end of
\* the list, whatever the list already holds.
Recorded(tests, record) == Append(tests, record)

Tools == {"bendsql", "snowsql"}

\* No result yet: the client has not been run, or is running.
NoResult ==
    [query |-> << >>, stdout |-> << >>, stderr |-> << >>, returncode |-> 0,
     kind |-> None, value |-> << >>]

(* ------------------------------ engines -------------------------------- *)

\* The engines are external: in a run of Spec they answer anything.  A run
\* of EngineSpec tracks whether bendsql's target database is present, and
\* bendsql answers a DROP or CREATE of it accordingly.
Untracked == [tracked |-> FALSE, initially |-> FALSE, present |-> FALSE]

\* The statement drops, or creates, bendsql's target database.
EngineDrops(cmd) ==
    /\ cmd.tool = "bendsql"
    /\ cmd.query \in {DropQuery(args.database), DropQueryPlain(args.database)}

EngineCreates(cmd) ==
    /\ cmd.tool = "bendsql"
    /\ cmd.query = CreateQuery(args.database)

\* An answer without complaint.
EngineOk(o) ==
    /\ o.returncode = 0
    /\ o.stderr = << >>
    /\ ~Contains(Lower(o.stdout), error_word)
    /\ ~Contains(Lower(o.stdout), <<"u","n","k","n","o","w","n">>)

\* An answer that reports an unknown-database error.
EngineUnknownDatabase(o) ==
    /\ Contains(Lower(o.stdout \o o.stderr), Lower(Unknown_database))
    /\ Contains(Lower(o.stdout \o o.stderr), error_word)

\* Some other error report.
EngineError(o) ==
    /\ Contains(Lower(o.stdout \o o.stderr), error_word)
    /\ ~EngineUnknownDatabase(o)

\* What the engine can answer to cmd: dropping an absent database is an
\* unknown-database error, creating an absent one succeeds.
EngineAnswers(cmd) ==
    IF ~engine.tracked THEN Outcomes
    ELSE IF EngineDrops(cmd)
         THEN {o \in Outcomes :
                 IF engine.present THEN EngineOk(o) ELSE EngineUnknownDatabase(o)}
    ELSE IF EngineCreates(cmd)
         THEN {o \in Outcomes :
                 IF engine.present THEN EngineError(o) ELSE EngineOk(o)}
    ELSE Outcomes

\* The target database after the engine has run cmd.
EngineAfter(cmd) ==
    IF ~engine.tracked THEN engine
    ELSE IF EngineDrops(cmd) THEN [engine EXCEPT !.present = FALSE]
    ELSE IF EngineCreates(cmd) THEN [engine EXCEPT !.present = TRUE]
    ELSE engine

(* ------------------------------ actions -------------------------------- *)

Init ==
    /\ args \in [database : {<<"d">>}, warehouse : {"COMPUTE_WH"},
                 run_check_only : BOOLEAN, runbend : BOOLEAN, runsnow : BOOLEAN]
    /\ files \in Cases
    /\ pc = Site("start", None, 0)
    /\ blocked = FALSE
    /\ running = {}
    /\ calls = << >>
    /\ failed_launches = {}
    /\ last = [t \in Tools |-> NoResult]
    /\ bend_result = << >>
    /\ passed_tests = << >>
    /\ failed_tests = << >>
    /\ now = 0
    /\ start_time = 0
    /\ total_start_time = 0
    /\ summaries = << >>
    /\ engine = Untracked

\* Control moves to site s at time t.  Entering run_check_sql takes
\* total_start_time, reaching a check statement takes start_time, and the
\* end of run_check_sql reports the summary.
Goto(s, t) ==
    /\ pc' = s
    /\ total_start_time' =
          IF pc.at # "check" /\ s.at \in {"check", "done"} THEN t
          ELSE total_start_time
    /\ start_time' =
          IF s.at = "check" /\ s.tool = "bendsql" THEN t ELSE start_time
    /\ summaries' =
          IF s.at = "done"
          THEN Append(summaries,
                      [passed |-> passed_tests', failed |-> failed_tests',
                       total |-> t - total_start_time'])
          ELSE summaries

\* main(): the mode is read off the flags and the first pipeline starts.
Start ==
    /\ pc.at = "start"
    /\ UNCHANGED <<passed_tests, failed_tests>>
    /\ Goto(FirstSite, now)
    /\ UNCHANGED <<args, files, blocked, running, calls, failed_launches, last,
                   bend_result, now, engine>>

\* execute_sql up to subprocess.run, which starts the client.
Launch ==
    /\ pc.at \in CallSites
    /\ ~blocked
    /\ calls' = Append(calls, [cmd |-> CommandAt(pc), by |-> pc])
    /\ running' = running \cup {Len(calls) + 1}
    /\ blocked' = subprocess_run_blocks
    /\ last' = [last EXCEPT ![pc.tool] = NoResult]
    /\ UNCHANGED <<args, files, pc, failed_launches, bend_result, passed_tests,
                   failed_tests, now, start_time, total_start_time, summaries,
                   engine>>

\* subprocess.run raises OSError: the client cannot be started.  Only
\* setup_database's try around the bendsql DROP catches it.
LaunchFails ==
    /\ pc.at \in CallSites
    /\ ~blocked
    /\ calls' = Append(calls, [cmd |-> CommandAt(pc), by |-> pc])
    /\ failed_launches' = failed_launches \cup {Len(calls) + 1}
    /\ last' = [last EXCEPT ![pc.tool] = NoResult]
    /\ UNCHANGED <<passed_tests, failed_tests>>
    /\ IF pc.at = "drop" /\ pc.tool = "bendsql"
       THEN Goto(Site("create", "bendsql", 0), now)
       ELSE Goto(Site("raised", None, 1), now)
    /\ UNCHANGED <<args, files, blocked, running, bend_result, now, engine>>

\* The part of a process's end every call site shares: the process leaves
\* `running`, the clock moves and execute_sql classifies the result.
Ends(k, o) ==
    /\ blocked
    /\ k \in running
    /\ o \in EngineAnswers(calls[k].cmd)
    /\ engine' = EngineAfter(calls[k].cmd)
    /\ running' = running \ {k}
    /\ blocked' = FALSE
    /\ now' = now + 1
    /\ last' = [last EXCEPT ![calls[k].cmd.tool] =
                   [query |-> calls[k].cmd.query,
                    stdout |-> o.stdout, stderr |-> o.stderr,
                    returncode |-> o.returncode,
                    kind  |-> execute_sql(calls[k].cmd.query, o).kind,
                    value |-> execute_sql(calls[k].cmd.query, o).value]]
    /\ UNCHANGED <<args, files, calls, failed_launches>>

\* setup_database: the DROP or the CREATE has ended.
CompleteProvision ==
    /\ pc.at \in {"drop", "create"}
    /\ \E k \in running, o \in Outcomes :
         /\ Ends(k, o)
         /\ UNCHANGED <<bend_result, passed_tests, failed_tests>>
         /\ IF execute_sql(calls[k].cmd.query, o).kind = "exit"
            THEN Goto(Site("exit", None, 1), now')
            ELSE IF pc.at = "drop"
                 THEN Goto(Site("create", pc.tool, 0), now')
                 ELSE Goto(SetupFrom(pc.tool, 1), now')

\* execute_sql_scripts: a statement of setup.sql or action.sql has ended.
CompleteScript ==
    /\ pc.at \in {"setup", "action"}
    /\ \E k \in running, o \in Outcomes :
         /\ Ends(k, o)
         /\ UNCHANGED <<bend_result, passed_tests, failed_tests>>
         /\ IF execute_sql(calls[k].cmd.query, o).kind = "exit"
            THEN Goto(Site("exit", None, 1), now')
            ELSE IF pc.at = "setup"
                 THEN Goto(SetupFrom(pc.tool, pc.i + 1), now')
                 ELSE Goto(ActionFrom(pc.tool, pc.i + 1), now')

\* run_check_sql: bendsql has answered a check statement.
CompleteBend ==
    /\ pc.at = "check" /\ pc.tool = "bendsql"
    /\ \E k \in running, o \in Outcomes :
         /\ Ends(k, o)
         /\ UNCHANGED <<passed_tests, failed_tests>>
         /\ IF execute_sql(calls[k].cmd.query, o).kind = "exit"
            THEN /\ UNCHANGED bend_result
                 /\ Goto(Site("exit", None, 1), now')
            ELSE /\ bend_result' = execute_sql(calls[k].cmd.query, o).value
                 /\ Goto(Site("check", "snowsql", pc.i), now')

\* run_check_sql: snowsql has answered; the two results are compared and
\* recorded, and the loop goes on (to the summary after the last statement).
CompleteSnow ==
    /\ pc.at = "check" /\ pc.tool = "snowsql"
    /\ \E k \in running, o \in Outcomes :
         LET r     == execute_sql(calls[k].cmd.query, o)
             query == Queries("check", None)[pc.i]
         IN
         /\ Ends(k, o)
         /\ UNCHANGED bend_result
         /\ IF r.kind = "exit"
            THEN /\ UNCHANGED <<passed_tests, failed_tests>>
                 /\ Goto(Site("exit", None, 1), now')
            ELSE /\ IF Differ(bend_result, r.value)
                    THEN /\ failed_tests' =
                              Recorded(failed_tests,
                                       FailedRecord(QueryIdentifier(query),
                                                    bend_result, r.value))
                         /\ UNCHANGED passed_tests
                    ELSE /\ passed_tests' =
                              Recorded(passed_tests,
                                       PassedRecord(QueryIdentifier(query),
                                                    now' - start_time))
                         /\ UNCHANGED failed_tests
                 /\ Goto(AfterCompare(pc.i, Differ(bend_result, r.value)), now')

Next ==
    \/ Start
    \/ Launch
    \/ LaunchFails
    \/ CompleteProvision
    \/ CompleteScript
    \/ CompleteBend
    \/ CompleteSnow

Spec == Init /\ [][Next]_vars

\* A run against a bendsql whose target database is tracked, absent or
\* present at the start, with clients that can be launched.
InitEngine ==
    /\ args \in [database : {<<"d">>}, warehouse : {"COMPUTE_WH"},
                 run_check_only : BOOLEAN, runbend : BOOLEAN, runsnow : BOOLEAN]
    /\ files \in Cases
    /\ pc = Site("start", None, 0)
    /\ blocked = FALSE
    /\ running = {}
    /\ calls = << >>
    /\ failed_launches = {}
    /\ last = [t \in Tools |-> NoResult]
    /\ bend_result = << >>
    /\ passed_tests = << >>
    /\ failed_tests = << >>
    /\ now = 0
    /\ start_time = 0
    /\ total_start_time = 0
    /\ summaries = << >>
    /\ \E p \in BOOLEAN :
          engine = [tracked |-> TRUE, initially |-> p, present |-> p]

NextEngine ==
    \/ Start
    \/ Launch
    \/ CompleteProvision
    \/ CompleteScript
    \/ CompleteBend
    \/ CompleteSnow

EngineSpec == InitEngine /\ [][NextEngine]_vars

(* ------------------------------ claims --------------------------------- *)

\* The fragments of check.sql and the indices of those that are statements.
CheckQueries == Queries("check", None)

CheckStatements == {k \in 1..Len(CheckQueries) : Strip(CheckQueries[k]) # << >>}

\* A step in which snowsql's answer to a check statement is compared, the
\* run not having been ended by that answer.
Compared ==
    /\ pc.at = "check" /\ pc.tool = "snowsql" /\ blocked /\ ~blocked'
    /\ pc'.at # "exit"

\* Case-insensitive substring test.
ContainsCI(s, p) == Contains(Lower(s), Lower(p))

\* C1: in run_check_sql every non-empty statement of the check script
\* produces exactly one record, in passed_tests if and only if the text
\* bendsql returned equals the text snowsql returned character for
\* character and in failed_tests otherwise; the statements compared so far,
\* and at the end all of them, number len(passed_tests) + len(failed_tests).
C1_OneRecordPerStatement ==
    /\ [](pc.at \in {"check", "done"} =>
            Len(passed_tests) + Len(failed_tests) =
               Cardinality({k \in CheckStatements : pc.at = "done" \/ k < pc.i}))
    /\ [][Compared =>
            IF last'["bendsql"].stdout = last'["snowsql"].stdout
            THEN /\ Len(passed_tests') = Len(passed_tests) + 1
                 /\ failed_tests' = failed_tests
            ELSE /\ Len(failed_tests') = Len(failed_tests) + 1
                 /\ passed_tests' = passed_tests]_vars

\* A finished run with a match, and a mismatch of texts that differ only in
\* whitespace.
C1_Witness ==
    /\ pc.at = "done"
    /\ passed_tests # << >>
    /\ \E k \in 1..Len(failed_tests) :
          Strip(failed_tests[k][2]) = Strip(failed_tests[k][3])

\* C2: when the two engines' outputs for a check statement differ, the
\* record appended to failed_tests is (identifier, bendsql's stdout,
\* snowsql's stdout) for that statement, both texts verbatim.
C2_MismatchKeepsBothTexts ==
    [][(Compared /\ last'["bendsql"].stdout # last'["snowsql"].stdout) =>
          /\ last'["bendsql"].query = CheckQueries[pc.i]
          /\ last'["snowsql"].query = CheckQueries[pc.i]
          /\ failed_tests' =
                Append(failed_tests,
                       <<QueryIdentifier(CheckQueries[pc.i]),
                         last'["bendsql"].stdout, last'["snowsql"].stdout>>)]_vars

\* A mismatch has been recorded whose bendsql text ends in a newline that
\* snowsql's text lacks.
C2_Witness ==
    \E k \in 1..Len(failed_tests) :
       /\ failed_tests[k][2] = failed_tests[k][3] \o <<"\n">>
       /\ pc.at = "check"

\* The latest subprocess.run has ended: its result is Answer.
Answered ==
    /\ calls # << >>
    /\ ~blocked
    /\ Len(calls) \notin failed_launches

Answer == last[calls[Len(calls)].cmd.tool]

\* The output of a statement other than DROP DATABASE that execute_sql
\* treats as fatal.
FatalText(r) ==
    /\ ~Contains(r.query, DROP_DATABASE)
    /\ \/ ContainsCI(r.stdout, error_word)
       \/ ContainsCI(r.stderr, error_word)
       \/ ContainsCI(r.stdout, unknown_function)

\* The run was ended by a fatal invocation: sys.exit(1) on a fatal output,
\* or a client that could not be launched.
EndedByFatal ==
    \/ pc.at = "exit" /\ Answered /\ FatalText(Answer)
    \/ pc.at = "raised" /\ Len(calls) \in failed_launches

\* Check statement k has been run against both engines.
RanOnBoth(k) ==
    \A t \in Tools :
       \E n \in 1..Len(calls) : calls[n].by = Site("check", t, k)

\* C3 as claimed: once a mismatch is recorded, every later statement is run
\* against both engines and the run reaches the final summary.
C3_AsClaimed ==
    (failed_tests # << >> /\ pc.at \in Ended) =>
        /\ pc.at = "done"
        /\ \A k \in CheckStatements : RanOnBoth(k)

\* C3 (amended): a mismatch is never by itself fatal to the run.  The step
\* that records a mismatch goes on to the next non-empty check statement
\* or, after the last one, to the summary; a run that has recorded a
\* mismatch ends without summary only if a later invocation is fatal;
\* otherwise it is at a check statement, about to invoke an engine or
\* waiting for one that is running, until it reaches the summary, with
\* every check statement run against both engines.
C3_MismatchNotFatal ==
    /\ [][(Compared /\ Len(failed_tests') > Len(failed_tests)) =>
             /\ pc' = CheckFrom(pc.i + 1)
             /\ pc'.at = "done" => Len(summaries') = 1]_vars
    /\ []((failed_tests # << >> /\ pc.at \in Ended /\ pc.at # "done")
             => EndedByFatal)
    /\ []((failed_tests # << >> /\ pc.at \notin Ended) =>
             /\ pc.at = "check"
             /\ blocked => running # {})
    /\ []((failed_tests # << >> /\ pc.at = "done") =>
             /\ \A k \in CheckStatements : RanOnBoth(k)
             /\ Len(summaries) = 1)

\* A mismatch on the first of two check statements, and the run finished
\* with both in failed_tests.
C3_Witness ==
    /\ pc.at = "done"
    /\ Len(failed_tests) = 2
    /\ Len(summaries) = 1

\* C4: a FatalError aborts the run at once.  When the output of a statement
\* other than DROP DATABASE is classified fatal the run is over: that step
\* invokes nothing and records nothing, no step follows it, no client is
\* left running, snowsql is not asked the check statement bendsql failed
\* on, and no summary is reported.
C4_FatalAbortsRun ==
    /\ []((Answered /\ FatalText(Answer)) => pc.at = "exit")
    /\ [][(pc'.at = "exit" /\ pc.at # "exit") =>
             /\ calls' = calls
             /\ passed_tests' = passed_tests
             /\ failed_tests' = failed_tests
             /\ summaries' = summaries]_vars
    /\ [][pc.at # "exit"]_vars
    /\ [](pc.at = "exit" =>
             /\ running = {}
             /\ summaries = << >>
             /\ Answered /\ FatalText(Answer)
             /\ LET by == calls[Len(calls)].by
                IN  (by.at = "check" /\ by.tool = "bendsql") =>
                       \A n \in 1..Len(calls) :
                          calls[n].by # Site("check", "snowsql", by.i))

\* bendsql's answer to the second check statement was fatal, after a first
\* statement that was recorded.
C4_Witness ==
    /\ pc.at = "exit"
    /\ calls[Len(calls)].by.at = "check"
    /\ calls[Len(calls)].by.tool = "bendsql"
    /\ Len(passed_tests) + Len(failed_tests) = 1

\* C5: a DROP DATABASE statement whose output (stdout followed by stderr)
\* says "unknown database", in any spelling and on either engine, is never
\* fatal: execute_sql returns its stdout and the run goes on with the next
\* statement.
C5_UnknownDatabaseDropTolerated ==
    (/\ Answered
     /\ Contains(Answer.query, DROP_DATABASE)
     /\ ContainsCI(Answer.stdout \o Answer.stderr, Unknown_database))
    => /\ Answer.kind = "return"
       /\ Answer.value = Answer.stdout
       /\ LET by == calls[Len(calls)].by
          IN  pc = CASE by.at = "drop"   -> Site("create", by.tool, 0)
                     [] by.at = "create" -> SetupFrom(by.tool, 1)
                     [] by.at = "setup"  -> SetupFrom(by.tool, by.i + 1)
                     [] by.at = "action" -> ActionFrom(by.tool, by.i + 1)
                     [] by.at = "check" /\ by.tool = "bendsql" ->
                                            Site("check", "snowsql", by.i)
                     [] by.at = "check" /\ by.tool = "snowsql" ->
                                            CheckFrom(by.i + 1)

\* A DROP DATABASE statement of action.sql was answered "error: unknown
\* database", which is not the spelling line 64 looks for, and the script
\* is at its next statement.
C5_Witness ==
    /\ Answered
    /\ calls[Len(calls)].by.at = "action"
    /\ Contains(Answer.query, DROP_DATABASE)
    /\ ContainsCI(Answer.stdout, Unknown_database)
    /\ ~Contains(Answer.stdout \o Answer.stderr, Unknown_database)
    /\ pc.at = "action"

\* C6: for a statement other than DROP DATABASE, execute_sql returns, and
\* returns exactly stdout, if and only if neither stdout nor stderr contains
\* "error" and stdout does not contain "unknown function" (both compared
\* case-insensitively); otherwise the run is ended.  Whatever the statement,
\* a returned text is the engine's stdout unchanged.
C6_SuccessIffCleanText ==
    Answered =>
       /\ ~Contains(Answer.query, DROP_DATABASE) =>
             IF \/ ContainsCI(Answer.stdout, error_word)
                \/ ContainsCI(Answer.stderr, error_word)
                \/ ContainsCI(Answer.stdout, unknown_function)
             THEN Answer.kind = "exit" /\ pc.at = "exit"
             ELSE Answer.kind = "return" /\ Answer.value = Answer.stdout
                     /\ pc.at # "exit"
       /\ Answer.kind \in {"return", "exit"}
       /\ Answer.kind = "return" => Answer.value = Answer.stdout

\* A statement whose stderr alone says "unknown function" succeeded.
C6_Witness ==
    /\ Answered
    /\ ~Contains(Answer.query, DROP_DATABASE)
    /\ ContainsCI(Answer.stderr, unknown_function)
    /\ Answer.kind = "return"
    /\ Answer.value = Answer.stdout

\* C7: what execute_sql does is independent of the exit status: an answer
\* with the same statement, stdout and stderr but another exit status is
\* classified the same way and returns the same text.
C7_ExitStatusIgnored ==
    /\ Answered =>
          \A o \in Outcomes :
             (o.stdout = Answer.stdout /\ o.stderr = Answer.stderr) =>
                /\ execute_sql(Answer.query, o).kind = Answer.kind
                /\ execute_sql(Answer.query, o).value = Answer.value
    /\ \A t, u \in Tools :
          (/\ last[t].kind # None /\ last[u].kind # None
           /\ last[t].query = last[u].query
           /\ last[t].stdout = last[u].stdout
           /\ last[t].stderr = last[u].stderr)
          => last[t].kind = last[u].kind /\ last[t].value = last[u].value

\* The two engines answered one check statement with the same clean text,
\* bendsql with exit status 0 and snowsql with exit status 1, and both
\* answers were returned.
C7_Witness ==
    /\ last["bendsql"].kind = "return" /\ last["snowsql"].kind = "return"
    /\ last["bendsql"].query = last["snowsql"].query
    /\ last["bendsql"].stdout = last["snowsql"].stdout
    /\ last["bendsql"].stderr = last["snowsql"].stderr
    /\ last["bendsql"].returncode = 0 /\ last["snowsql"].returncode = 1

\* An "error" answer with exit status 0 to a statement other than DROP
\* DATABASE ended the run.
C7_WitnessFatal ==
    /\ pc.at = "exit"
    /\ Answered
    /\ Answer.returncode = 0
    /\ ContainsCI(Answer.stdout, error_word)

\* The statements execute_sql was called with from script `at` for `tool`,
\* in call order.
ExecutedBy(at, tool) ==
    LET From(c) == c.by.at = at /\ c.by.tool = tool
        made    == SelectSeq(calls, From)
    IN  [n \in 1..Len(made) |-> made[n].cmd.query]

\* The non-empty, non-whitespace-only fragments of a fixture, in file order.
Statements(at, tool) ==
    LET Filled(q) == Strip(q) # << >>
    IN  SelectSeq(Queries(at, tool), Filled)

IsPrefix(a, b) == Len(a) <= Len(b) /\ SubSeq(b, 1, Len(a)) = a

\* The place of a call site in main()'s order.
Place(s) ==
    IF s.at \in {"check", "done"} THEN 100
    ELSE 10 * (CHOOSE n \in 1..Len(Pipelines) : Pipelines[n] = s.tool)
           + (CASE s.at = "drop" -> 1 [] s.at = "create" -> 2
                [] s.at = "setup" -> 3 [] s.at = "action" -> 4)

\* The run is past script `at` of `tool`'s pipeline (check.sql: the
\* comparator's loop has ended).
Finished(at, tool) ==
    IF at = "check" THEN pc.at = "done"
    ELSE /\ pc.at \in CallSites \cup {"done"}
         /\ \E n \in 1..Len(Pipelines) : Pipelines[n] = tool
         /\ Place(pc) > Place(Site(at, tool, 0))

\* C8: the fragments of a fixture are executed strictly in file order, each
\* non-empty, non-whitespace-only fragment once and each empty or
\* whitespace-only fragment never; a statement is invoked only when every
\* earlier one has returned; and a fixture run again (action.sql for the
\* second engine, check.sql for snowsql) gives the same ordered statements.
C8_FileOrderOnceEach ==
    /\ \A at \in {"setup", "action", "check"}, tool \in Tools :
          /\ IsPrefix(ExecutedBy(at, tool), Statements(at, tool))
          /\ Finished(at, tool) => ExecutedBy(at, tool) = Statements(at, tool)
    /\ running \subseteq {Len(calls)}
    /\ (Finished("action", "bendsql") /\ Finished("action", "snowsql"))
          => ExecutedBy("action", "bendsql") = ExecutedBy("action", "snowsql")
    /\ Finished("check", None)
          => ExecutedBy("check", "bendsql") = ExecutedBy("check", "snowsql")

\* Both pipelines and the comparator have run fixtures that have blank
\* fragments between and after their statements.
C8_Witness ==
    /\ pc.at = "done"
    /\ Len(Pipelines) = 2
    /\ Strip(CheckQueries[1]) = << >>
    /\ ExecutedBy("check", "snowsql") # << >>
    /\ Len(ExecutedBy("action", "snowsql")) = 2

\* The calls made by the script runner and the comparator.
ScriptCalls == {n \in 1..Len(calls) : calls[n].by.at \in {"setup", "action", "check"}}

\* C9 as claimed: every statement handed to an engine by the script runner
\* or the comparator has no leading and no trailing whitespace.
C9_AsClaimed ==
    \A n \in ScriptCalls : calls[n].cmd.query = Strip(calls[n].cmd.query)

\* C9 (amended): every statement handed to an engine by the script runner
\* or the comparator is a fragment of the fixture that is not empty or
\* whitespace-only, passed exactly as split: whitespace around it (such as
\* the newline after the previous ';') is kept.
C9_FragmentPassedAsSplit ==
    \A n \in ScriptCalls :
       /\ calls[n].cmd.query = Queries(calls[n].by.at, calls[n].by.tool)[calls[n].by.i]
       /\ Strip(calls[n].cmd.query) # << >>

\* A check statement was handed to snowsql with the newline that follows
\* the previous ';' at its head.
C9_Witness ==
    \E n \in ScriptCalls :
       /\ calls[n].by.at = "check" /\ calls[n].by.tool = "snowsql"
       /\ calls[n].cmd.query[1] = "\n"

\* The comparator's calls, in call order.
CheckCalls ==
    LET Check(c) == c.by.at = "check"
    IN  SelectSeq(calls, Check)

\* C10: at most one client process is in flight at any time (a process
\* still running is the one most recently invoked), and in the comparator
\* each statement is invoked on bendsql, then, bendsql having ended, on
\* snowsql, and only then is the next statement invoked.
C10_OneProcessBendThenSnow ==
    /\ Cardinality(running) <= 1
    /\ running \subseteq {Len(calls)}
    /\ blocked <=> running # {}
    /\ \A n \in 1..Len(CheckCalls) :
          IF n % 2 = 1
          THEN /\ CheckCalls[n].by.tool = "bendsql"
               /\ n > 1 => CheckCalls[n].by.i > CheckCalls[n - 1].by.i
          ELSE /\ CheckCalls[n].by.tool = "snowsql"
               /\ CheckCalls[n].by.i = CheckCalls[n - 1].by.i
               /\ CheckCalls[n].cmd.query = CheckCalls[n - 1].cmd.query

\* snowsql is running the second check statement; bendsql's answer to it
\* has been returned.
C10_Witness ==
    /\ blocked
    /\ running = {Len(calls)}
    /\ Len(CheckCalls) = 4
    /\ calls[Len(calls)].by.tool = "snowsql"
    /\ last["bendsql"].kind = "return"
    /\ last["bendsql"].query = calls[Len(calls)].cmd.query

\* C11: under --run-check-only the run issues no provisioning statement
\* and no setup.sql or action.sql statement to either engine: every
\* statement invoked is a statement of check.sql, invoked by the comparator.
C11_CheckOnlyRunsCheckOnly ==
    args.run_check_only =>
       \A n \in 1..Len(calls) :
          /\ calls[n].by.at = "check"
          /\ calls[n].by.i \in CheckStatements
          /\ calls[n].cmd.query = CheckQueries[calls[n].by.i]
          /\ calls[n].cmd.dbname = args.database

\* A --run-check-only run, given --runbend as well, has finished after
\* invoking the engines.
C11_Witness ==
    /\ args.run_check_only /\ args.runbend
    /\ pc.at = "done"
    /\ Len(calls) >= 4

\* The order of the phases of a run.
PhaseRank(at) ==
    CASE at = "drop" -> 1 [] at = "create" -> 2 [] at = "setup" -> 3
      [] at = "action" -> 4 [] at = "check" -> 5

\* Engine t has been provisioned and loaded: DROP, CREATE, all of its
\* setup.sql and all of action.sql, in that order.
Loaded(t) ==
    /\ \E n \in 1..Len(calls) : calls[n].by = Site("drop", t, 0)
    /\ \E n \in 1..Len(calls) : calls[n].by = Site("create", t, 0)
    /\ ExecutedBy("setup", t) = Statements("setup", t)
    /\ ExecutedBy("action", t) = Statements("action", t)
    /\ \A m, n \in 1..Len(calls) :
          (m < n /\ calls[m].by.tool = t /\ calls[n].by.tool = t)
             => PhaseRank(calls[m].by.at) <= PhaseRank(calls[n].by.at)

\* C12: with --runbend or --runsnow (and no --run-check-only) provisioning,
\* setup.sql and action.sql are executed, in that order, for the selected
\* engine only; the other engine is invoked by the comparator alone, which
\* runs every check.sql statement against both engines.
C12_SingleEngineThenCompareBoth ==
    (~args.run_check_only /\ (args.runbend \/ args.runsnow)) =>
       LET selected == IF args.runbend THEN "bendsql" ELSE "snowsql"
       IN  /\ \A n \in 1..Len(calls) :
                 calls[n].by.at # "check" => calls[n].by.tool = selected
           /\ \A m, n \in 1..Len(calls) :
                 m < n => PhaseRank(calls[m].by.at) <= PhaseRank(calls[n].by.at)
           /\ pc.at \in {"check", "done"} => Loaded(selected)
           /\ pc.at = "done" => \A k \in CheckStatements : RanOnBoth(k)

\* A --runsnow run has finished: snowsql was loaded from two-statement
\* scripts and bendsql was asked the check statements.
C12_Witness ==
    /\ ~args.run_check_only /\ ~args.runbend /\ args.runsnow
    /\ pc.at = "done"
    /\ Len(ExecutedBy("action", "snowsql")) = 2
    /\ ExecutedBy("check", "bendsql") # << >>

\* The stage of a run a call belongs to: the bendsql pipeline, the snowsql
\* pipeline, the comparator.
StageRank(by) ==
    IF by.at = "check" THEN 3 ELSE IF by.tool = "bendsql" THEN 1 ELSE 2

\* C13: with no mode flag the whole bendsql pipeline (provisioning,
\* setup.sql, action.sql) has finished before the first snowsql statement
\* is invoked, the whole snowsql pipeline has finished before the first
\* check.sql statement is invoked, and a run that a pipeline's fatal error
\* ended has compared and reported nothing.
C13_BendThenSnowThenCompare ==
    (~args.run_check_only /\ ~args.runbend /\ ~args.runsnow) =>
       /\ \A m, n \in 1..Len(calls) :
             m < n => StageRank(calls[m].by) <= StageRank(calls[n].by)
       /\ \A n \in 1..Len(calls) :
             /\ StageRank(calls[n].by) >= 2 => Loaded("bendsql")
             /\ StageRank(calls[n].by) = 3 => Loaded("snowsql")
             /\ StageRank(calls[n].by) >= 2 =>
                   \A m \in running : StageRank(calls[m].by) >= 2
             /\ StageRank(calls[n].by) = 3 =>
                   \A m \in running : StageRank(calls[m].by) = 3
       /\ (pc.at \in {"exit", "raised"} /\ StageRank(calls[Len(calls)].by) < 3) =>
             /\ CheckCalls = << >>
             /\ passed_tests = << >> /\ failed_tests = << >>
             /\ summaries = << >>

\* With no mode flag, both engines loaded, the comparator is running its
\* first statement on bendsql.
C13_Witness ==
    /\ ~args.run_check_only /\ ~args.runbend /\ ~args.runsnow
    /\ Len(CheckCalls) = 1
    /\ blocked
    /\ Len(ExecutedBy("setup", "bendsql")) = 2

\* With no mode flag, the snowsql pipeline met a fatal error after the
\* bendsql pipeline had finished.
C13_WitnessFatal ==
    /\ ~args.run_check_only /\ ~args.runbend /\ ~args.runsnow
    /\ pc.at = "exit"
    /\ StageRank(calls[Len(calls)].by) = 2

\* The calls of setup_database for bendsql, in call order.
BendProvisioning ==
    LET Prov(c) == c.by.tool = "bendsql" /\ c.by.at \in {"drop", "create"}
        made    == SelectSeq(calls, Prov)
    IN  [n \in 1..Len(made) |-> made[n].cmd]

IF_EXISTS == <<"I","F"," ","E","X","I","S","T","S">>

\* C14 as claimed: bendsql provisioning issues a DROP DATABASE of the
\* target database without an IF EXISTS clause, then a CREATE DATABASE.
C14_AsClaimed ==
    \A n \in 1..Len(BendProvisioning) :
       /\ Contains(BendProvisioning[n].query, DROP_DATABASE) =>
             ~Contains(BendProvisioning[n].query, IF_EXISTS)
       /\ BendProvisioning[n].dbname = DefaultDatabase

\* C14 (amended): provisioning bendsql issues exactly two statements, both
\* against the "default" database and in this order: DROP DATABASE IF
\* EXISTS <database>; (with the IF EXISTS clause) and CREATE DATABASE
\* <database>;.  The CREATE is the next invocation whatever became of the
\* DROP.
C14_BendProvisioningDropIfExistsCreate ==
    LET drop   == [tool |-> "bendsql", dbname |-> <<"d","e","f","a","u","l","t">>, warehouse |-> None,
                   query |-> <<"D","R","O","P"," ","D","A","T","A","B","A","S","E"," ","I","F"," ","E","X","I","S","T","S"," ">> \o args.database \o <<";">>]
        create == [tool |-> "bendsql", dbname |-> <<"d","e","f","a","u","l","t">>, warehouse |-> None,
                   query |-> <<"C","R","E","A","T","E"," ","D","A","T","A","B","A","S","E"," ">> \o args.database \o <<";">>]
    IN  /\ IsPrefix(BendProvisioning, <<drop, create>>)
        /\ \A n \in 1..Len(calls) :
              calls[n].by = Site("drop", "bendsql", 0) =>
                  /\ n < Len(calls) => calls[n + 1].by = Site("create", "bendsql", 0)
                  /\ (n = Len(calls) /\ ~blocked) => pc = Site("create", "bendsql", 0)
        /\ (\E n \in 1..Len(calls) :
               calls[n].by.tool = "bendsql" /\ calls[n].by.at \in {"setup", "action"})
              => Len(BendProvisioning) = 2

\* The DROP DATABASE IF EXISTS has ended and the CREATE is in flight.
C14_Witness ==
    /\ Len(BendProvisioning) = 2
    /\ blocked
    /\ calls[Len(calls)].by = Site("create", "bendsql", 0)
    /\ Contains(calls[Len(calls) - 1].cmd.query, IF_EXISTS)

\* C15: against a bendsql that reports an unknown-database error when
\* asked to drop an absent database and succeeds in creating an absent one,
\* provisioning bendsql is not fatal, whether the target database was
\* absent or present at the start: the DROP leaves it absent, the CREATE
\* leaves it present and the run goes on.  The end state (present) is one of
\* the two start states, so provisioning again ends in the same state.
C15_ProvisioningTolerantIdempotent ==
    engine.tracked =>
       /\ (Answered /\ calls[Len(calls)].by = Site("drop", "bendsql", 0)) =>
             /\ ~engine.present
             /\ pc = Site("create", "bendsql", 0)
       /\ (Answered /\ calls[Len(calls)].by = Site("create", "bendsql", 0)) =>
             /\ engine.present
             /\ pc.at \notin {"exit", "raised"}
       /\ (\E n \in 1..Len(calls) :
              n < Len(calls) /\ calls[n].by = Site("create", "bendsql", 0))
             => engine.present

\* The target database was absent, the DROP was answered with an
\* unknown-database error, and the CREATE has made it present.
C15_Witness ==
    /\ engine.tracked /\ ~engine.initially /\ engine.present
    /\ Answered
    /\ calls[Len(calls)].by = Site("create", "bendsql", 0)
    /\ pc.at = "setup"

\* The same from a database that was present at the start.
C15_WitnessPresent ==
    /\ engine.tracked /\ engine.initially /\ engine.present
    /\ Answered
    /\ calls[Len(calls)].by = Site("create", "bendsql", 0)

\* C16: a client that cannot be launched is fatal wherever it occurs, the
\* bendsql provisioning DROP included: the failure ends the run and no
\* statement is invoked after it.
C16_LaunchFailureFatal ==
    \A n \in failed_launches :
       /\ n = Len(calls)
       /\ pc.at = "raised"

\* C17: when every client is launched and returns, the run terminates, in
\* one of two ways: with exit status 1 right after the output of a
\* statement other than DROP DATABASE was classified fatal, no summary
\* reported; or with exit status 0 after the summary, reported once, of all
\* records.  Mismatches never give a non-zero exit.  (Termination: until it
\* has ended the run can take a step, and no call site is invoked twice.)
C17_TwoWaysToEnd ==
    failed_launches = {} =>
       /\ pc.at # "raised"
       /\ pc.at = "exit" =>
             /\ pc.i = 1
             /\ Answered /\ FatalText(Answer)
             /\ summaries = << >>
       /\ pc.at = "done" =>
             /\ pc.i = 0
             /\ summaries = <<[passed |-> passed_tests, failed |-> failed_tests,
                               total |-> now - total_start_time]>>
             /\ Answered => ~FatalText(Answer)
       /\ pc.at \notin Ended =>
             /\ summaries = << >>
             /\ pc.at = "start" \/ pc.at \in CallSites
             /\ blocked => running # {}
       /\ \A m, n \in 1..Len(calls) : m < n => calls[m].by # calls[n].by
       /\ \A n \in 1..Len(calls) :
             calls[n].by.i <= Len(Queries(calls[n].by.at, calls[n].by.tool))

\* A run of more than ten invocations, all returned, ended with exit
\* status 0 and a summary that lists a mismatch.
C17_Witness ==
    /\ failed_launches = {}
    /\ pc = Site("done", None, 0)
    /\ Len(calls) > 10
    /\ Len(summaries) = 1
    /\ summaries[1].failed # << >>

\* A run ended with exit status 1 on a fatal answer after a mismatch had
\* been recorded.
C17_WitnessExit ==
    /\ failed_launches = {}
    /\ pc = Site("exit", None, 1)
    /\ failed_tests # << >>

\* The identifier of the record a comparison step appends.
NewIdentifier ==
    IF Len(passed_tests') > Len(passed_tests)
    THEN passed_tests'[Len(passed_tests')][1]
    ELSE failed_tests'[Len(failed_tests')][1]

\* q[k], q[k+1] are "--", only whitespace lies between them and q[t], and
\* q[t..e] are word characters or hyphens followed by ':'.
TokenAt(q, k, t, e) ==
    /\ k + 2 <= t /\ t <= e /\ e + 1 <= Len(q)
    /\ q[k] = "-" /\ q[k + 1] = "-"
    /\ \A j \in (k + 2)..(t - 1) : q[j] \in Whitespace
    /\ \A j \in t..e : q[j] \in TokenChars
    /\ q[e + 1] = ":"

\* The places in q where a `-- token:` pattern starts.
PatternStarts(q) ==
    {k \in 1..Len(q) : \E t, e \in 1..Len(q) : TokenAt(q, k, t, e)}

\* C18 as claimed: a statement that does not open with a comment gets the
\* identifier "Unknown Query", also when a `-- token:` pattern occurs
\* after its first line.
C18_AsClaimed ==
    [][(Compared /\ Strip(CheckQueries[pc.i])[1] # "-")
          => NewIdentifier = <<"U","n","k","n","o","w","n"," ","Q","u","e","r","y">>]_vars

\* C18 (amended): the identifier of a check statement is the token of the
\* leftmost `-- <token>:` pattern (token of word characters and hyphens)
\* anywhere in the statement's text, whether in a leading comment, on a
\* later line or after SQL text; only a statement with no such pattern at
\* all gets "Unknown Query".
C18_IdentifierFromLeftmostPattern ==
    [][Compared =>
          LET q == CheckQueries[pc.i]
              starts == PatternStarts(q)
              id == NewIdentifier
          IN  IF starts = {}
              THEN id = Unknown_Query
              ELSE LET k == CHOOSE j \in starts : \A m \in starts : j <= m
                   IN  \E t \in 1..Len(q) : \E e \in t..Len(q) :
                          TokenAt(q, k, t, e) /\ id = SubSeq(q, t, e)]_vars

\* The statement "SELECT 1\n-- T1: x", whose pattern is on its second
\* line, has been recorded as T1.
C18_Witness ==
    /\ Len(passed_tests) + Len(failed_tests) = 1
    /\ CheckQueries # << >>
    /\ Strip(CheckQueries[1]) # << >>
    /\ Strip(CheckQueries[1])[1] = "S"
    /\ PatternStarts(CheckQueries[1]) # {}
    /\ \/ passed_tests # << >> /\ passed_tests[1][1] = <<"T","1">>
       \/ failed_tests # << >> /\ failed_tests[1][1] = <<"T","1">>

\* A statement without any pattern has been recorded as Unknown Query.
C18_WitnessUnknown ==
    /\ passed_tests # << >>
    /\ passed_tests[Len(passed_tests)][1] = <<"U","n","k","n","o","w","n"," ","Q","u","e","r","y">>

\* The check statements in file order, as places in the split of check.sql.
StatementOrder ==
    LET Filled(k) == k \in CheckStatements
    IN  SelectSeq([k \in 1..Len(CheckQueries) |-> k], Filled)

\* The identifiers of the statements at the places of `order` that lie in
\* `chosen`, in the order of `order`.
IdentifiersOf(order, chosen) ==
    LET In(k) == k \in chosen
        kept  == SelectSeq(order, In)
    IN  [n \in 1..Len(kept) |-> QueryIdentifier(CheckQueries[kept[n]])]

Identifiers(tests) == [n \in 1..Len(tests) |-> tests[n][1]]

\* The two lists hold one record for each of the first m check statements,
\* each list in file order.
InSourceOrder ==
    LET m     == Len(passed_tests) + Len(failed_tests)
        order == StatementOrder
    IN  /\ m <= Len(order)
        /\ LET done == {order[n] : n \in 1..m}
           IN  \E F \in SUBSET done :
                  /\ Identifiers(failed_tests) = IdentifiersOf(order, F)
                  /\ Identifiers(passed_tests) = IdentifiersOf(order, done \ F)

\* C19: passed_tests and failed_tests are each in the file order of the
\* check statements that produced them; a record is only ever appended, by
\* the comparison of a check.sql statement, and earlier records are never
\* removed, reordered or merged (also when identifiers repeat); before the
\* check phase, through provisioning, setup.sql and action.sql, both lists
\* are empty.
C19_RecordsAppendOnlyFromCheck ==
    /\ [](InSourceOrder
          /\ (pc.at \in {"start", "drop", "create", "setup", "action"}
                => passed_tests = << >> /\ failed_tests = << >>)
          /\ (CheckCalls = << >> => passed_tests = << >> /\ failed_tests = << >>))
    /\ [][/\ IsPrefix(passed_tests, passed_tests')
          /\ IsPrefix(failed_tests, failed_tests')
          /\ Len(passed_tests') + Len(failed_tests')
                <= Len(passed_tests) + Len(failed_tests) + 1
          /\ <<passed_tests, failed_tests>>' # <<passed_tests, failed_tests>>
                => /\ Compared
                   /\ NewIdentifier = QueryIdentifier(CheckQueries[pc.i])]_vars

\* The run has ended with two records in one list that share the
\* identifier T1, the setup and action scripts having been run before.
C19_Witness ==
    /\ pc.at = "done"
    /\ \E n \in 1..Len(calls) : calls[n].by.at = "action"
    /\ \/ Len(passed_tests) = 2 /\ passed_tests[1][1] = passed_tests[2][1]
       \/ Len(failed_tests) = 2 /\ failed_tests[1][1] = failed_tests[2][1]

\* The pipeline each combination of the three mode flags selects.
ModeOf(run_check_only, runbend, runsnow) ==
    CASE run_check_only                          -> "CheckOnly"
      [] ~run_check_only /\ runbend              -> "BendOnly"
      [] ~run_check_only /\ ~runbend /\ runsnow  -> "SnowOnly"
      [] ~run_check_only /\ ~runbend /\ ~runsnow -> "Both"

\* The engines a mode provisions and loads.
ModeEngines(mode) ==
    CASE mode = "CheckOnly" -> {}
      [] mode = "BendOnly"  -> {"bendsql"}
      [] mode = "SnowOnly"  -> {"snowsql"}
      [] mode = "Both"      -> {"bendsql", "snowsql"}

\* The engines that have been sent a provisioning, setup.sql or action.sql
\* statement so far.
Provisioned == {calls[n].by.tool : n \in {m \in 1..Len(calls) : calls[m].by.at # "check"}}

\* C20: the three flags select one pipeline by strict precedence
\* (--run-check-only over --runbend over --runsnow, none of them: both),
\* and the selection holds for the whole run: the flags never change, only
\* the selected mode's engines are ever provisioned or loaded (so with
\* --runbend and --runsnow together snowsql never is), and by the time the
\* comparator starts, every engine of the mode has been loaded.
C20_ModeByPrecedenceFixed ==
    /\ [](LET mode == ModeOf(args.run_check_only, args.runbend, args.runsnow)
          IN  /\ Provisioned \subseteq ModeEngines(mode)
              /\ pc.at \in {"check", "done"} =>
                    /\ Provisioned = ModeEngines(mode)
                    /\ \A t \in ModeEngines(mode) : Loaded(t))
    /\ [][args' = args]_vars

\* A run given both --runbend and --runsnow has finished: bendsql was
\* loaded and snowsql was asked the check statements only.
C20_Witness ==
    /\ ~args.run_check_only /\ args.runbend /\ args.runsnow
    /\ pc.at = "done"
    /\ Provisioned = {"bendsql"}
    /\ ExecutedBy("check", "snowsql") # << >>

=============================================================================
